---- MODULE Spec2Model ----
(***************************************************************************)
(* opaws: AWS credential_process backed by 1Password.                      *)
(*                                                                         *)
(* The model follows src/src/index.ts (the authenticate command).  Each    *)
(* invocation of the tool is one OS process; the processes share the       *)
(* temporary directory (lock token, cache files) and the wall clock.       *)
(*                                                                         *)
(* Conventions                                                             *)
(*  - a JavaScript string is a sequence of one-character strings;          *)
(*  - `undefined` (an absent option / absent JSON key) is the one-element  *)
(*    sequence <<"<undefined>">>, which is no character string;            *)
(*  - an optional object (T | undefined) is a sequence of length <= 1;     *)
(*  - the clock `now` counts whole seconds, Date.now() is now * 1000.      *)
(***************************************************************************)
EXTENDS Integers, Sequences, FiniteSets, TLC

\* ------------------------------------------------------------------------
\* Bounds of the model
\* ------------------------------------------------------------------------
\* number of seconds the clock runs past StartTime
Horizon == 4
\* lifetime, in seconds, of a session issued by STS (options.duration)
SessionTtl == 3
\* option values are the strings over KeyChars of at most this length
MaxOptLen == 1

\* ------------------------------------------------------------------------
\* Program constants
\* ------------------------------------------------------------------------
TotpPeriod == 30
RetryMargin == 3
MaxAttempts == 2
OutputVersion == 1

Procs == {"p1", "p2"}

\* first clock value: the last second of a one-time-code epoch
StartTime == TotpPeriod - 1
\* last clock value
MaxNow == StartTime + Horizon

undefined == <<"<undefined>">>

DEFAULT == <<"d", "e", "f", "a", "u", "l", "t">>
CACHE_PREFIX == <<"o", "p", "a", "w", "s", "-", "c", "a", "c", "h", "e">>
JSON_EXT == <<".", "j", "s", "o", "n">>
TMPDIR == <<"/", "t", "m", "p">>

\* ------------------------------------------------------------------------
\* Strings
\* ------------------------------------------------------------------------
\* a ?? b
Coalesce(a, b) == IF a = undefined THEN b ELSE a

RECURSIVE Join(_, _)
\* Array.prototype.join
Join(parts, sep) ==
  IF Len(parts) = 0 THEN <<>>
  ELSE IF Len(parts) = 1 THEN parts[1]
  ELSE parts[1] \o sep \o Join(Tail(parts), sep)

\* the character class of sanitizeFilename:  / \ ? % * : | " < >
UnsafeChars == {"/", "\\", "?", "%", "*", ":", "|", "\"", "<", ">"}

\* a sanitizer that lets every character through
sanitizeFilenameNone(filename) == filename

\* filename.replace(/[/\\?%*:|"<>]/g, "-"), the argument evaluated once
sanitizeFilename(filename) ==
  CHOOSE out \in {[n \in 1..Len(s) |-> IF s[n] \in UnsafeChars THEN "-" ELSE s[n]] :
                    s \in {filename}} : TRUE

\* path.join(dir, name) for a name without a path separator
PathJoin(dir, name) == dir \o <<"/">> \o name

getCacheKey(o) ==
  Join(<<CACHE_PREFIX,
         Coalesce(o.opAccount, DEFAULT),
         Coalesce(o.opVault, DEFAULT),
         o.opItem,
         Coalesce(o.roleArn, DEFAULT),
         Coalesce(o.roleSessionName, DEFAULT)>>, <<"-">>)

getCacheFilename(o) ==
  PathJoin(TMPDIR, sanitizeFilename(getCacheKey(o) \o JSON_EXT))

\* String.prototype.startsWith
startsWith(s, prefix) ==
  Len(s) >= Len(prefix) /\ SubSeq(s, 1, Len(prefix)) = prefix

\* ------------------------------------------------------------------------
\* Dates and their ISO-8601 text
\* ------------------------------------------------------------------------
\* A Date is its getTime() value, a number of milliseconds.  The calendar
\* part of the ISO text is abstracted to the decimal count of whole
\* seconds: "T" seconds "." milliseconds(3 digits) "Z".
DigitChars == <<"0", "1", "2", "3", "4", "5", "6", "7", "8", "9">>

DigitSet == {DigitChars[n] : n \in 1..10}

DigitVal(c) == (CHOOSE n \in 1..10 : DigitChars[n] = c) - 1

RECURSIVE NatToDigits(_)
NatToDigits(n) ==
  IF n < 10 THEN <<DigitChars[n + 1]>>
  ELSE NatToDigits(n \div 10) \o <<DigitChars[(n % 10) + 1]>>

RECURSIVE DigitsToNat(_)
DigitsToNat(ds) ==
  IF Len(ds) = 0 THEN 0
  ELSE 10 * DigitsToNat(SubSeq(ds, 1, Len(ds) - 1)) + DigitVal(ds[Len(ds)])

RECURSIVE PadStart(_, _)
PadStart(ds, width) ==
  IF Len(ds) >= width THEN ds ELSE PadStart(<<"0">> \o ds, width)

AllDigits(ds) == \A n \in 1..Len(ds) : ds[n] \in DigitSet

\* toISOString cut to whole seconds
toISOStringSeconds(ms) == <<"T">> \o NatToDigits(ms \div 1000) \o <<"Z">>

\* Date.prototype.toISOString, as JSON.stringify applies it to a Date
toISOString(ms) ==
  <<"T">> \o NatToDigits(ms \div 1000) \o <<".">>
    \o PadStart(NatToDigits(ms % 1000), 3) \o <<"Z">>

\* position of the first "." of a string, 0 when there is none
DotAt(s) ==
  IF \E n \in 1..Len(s) : s[n] = "."
  THEN CHOOSE n \in 1..Len(s) : s[n] = "." /\ \A m \in 1..(n - 1) : s[m] # "."
  ELSE 0

\* z.string().datetime(): UTC ("Z") only, any sub-second precision
isDatetime(s) ==
  /\ s # undefined
  /\ Len(s) >= 3
  /\ s[1] = "T"
  /\ s[Len(s)] = "Z"
  /\ LET body == SubSeq(s, 2, Len(s) - 1)
         dot == DotAt(body)
     IN IF dot = 0 THEN AllDigits(body)
        ELSE /\ dot > 1
             /\ dot < Len(body)
             /\ AllDigits(SubSeq(body, 1, dot - 1))
             /\ AllDigits(SubSeq(body, dot + 1, Len(body)))

\* new Date(s).getTime() for a string that isDatetime
DateParse(s) ==
  LET body == SubSeq(s, 2, Len(s) - 1)
      dot == DotAt(body)
      secs == IF dot = 0 THEN body ELSE SubSeq(body, 1, dot - 1)
      frac == IF dot = 0 THEN <<>> ELSE SubSeq(body, dot + 1, Len(body))
      frac3 == SubSeq(frac \o <<"0", "0", "0">>, 1, 3)
  IN DigitsToNat(secs) * 1000 + DigitsToNat(frac3)

LOG_PREFIX == <<"o", "p", "a", "w", "s", "-", "l", "o", "g", "-">>
LOG_EXT == <<".", "l", "o", "g">>

\* `opaws-log-${Date.now()}-${process.pid}.log`, a constant the module
\* computes when the process starts; the process id of invocation p is p
logFilename(p, nowMs) ==
  LOG_PREFIX \o NatToDigits(nowMs) \o <<"-", p>> \o LOG_EXT

\* ------------------------------------------------------------------------
\* Credentials and their JSON text
\* ------------------------------------------------------------------------
\* A JSON text is what JSON.parse makes of it: `parses` is FALSE for text
\* that is no JSON object, and an absent key holds undefined.
NoJson ==
  [parses |-> FALSE, AccessKeyId |-> undefined, SecretAccessKey |-> undefined,
   SessionToken |-> undefined, Expiration |-> undefined]

\* JSON.stringify(creds, null, 2) of a Credentials object
JSONstringify(creds) ==
  [parses |-> TRUE,
   AccessKeyId |-> creds.AccessKeyId,
   SecretAccessKey |-> creds.SecretAccessKey,
   SessionToken |-> creds.SessionToken,
   Expiration |-> toISOString(creds.Expiration)]

\* the object written to stdout: { ...creds, Version: 1 }
OutputJson(creds) ==
  [AccessKeyId |-> creds.AccessKeyId,
   SecretAccessKey |-> creds.SecretAccessKey,
   SessionToken |-> creds.SessionToken,
   Expiration |-> toISOString(creds.Expiration),
   Version |-> OutputVersion]

\* ------------------------------------------------------------------------
\* Files of the temporary directory
\* ------------------------------------------------------------------------
MissingFile == [kind |-> "missing", data |-> NoJson]
\* a path that cannot be read or written as a file (EISDIR)
DirFile == [kind |-> "dir", data |-> NoJson]
TextFile(json) == [kind |-> "file", data |-> json]

ENOENT == "ENOENT"
EISDIR == "EISDIR"

\* fs/promises readFile: the text, or the error code it rejects with
readFile(fs, name) ==
  CASE fs[name].kind = "file" -> [ok |-> TRUE, code |-> "", data |-> fs[name].data]
    [] fs[name].kind = "missing" -> [ok |-> FALSE, code |-> ENOENT, data |-> NoJson]
    [] OTHER -> [ok |-> FALSE, code |-> EISDIR, data |-> NoJson]

isFileNotFoundError(code) == code = ENOENT

\* fs/promises writeFile: rejects on a path that is no file, else replaces
\* the whole content
writeFileOk(fs, name) == fs[name].kind # "dir"

writeFile(fs, name, json) == [fs EXCEPT ![name] = TextFile(json)]

\* the zod object schema of the cache record
cacheSchemaOk(json) ==
  /\ json.AccessKeyId # undefined
  /\ json.SecretAccessKey # undefined
  /\ json.SessionToken # undefined
  /\ isDatetime(json.Expiration)

cacheSchemaData(json) ==
  [AccessKeyId |-> json.AccessKeyId,
   SecretAccessKey |-> json.SecretAccessKey,
   SessionToken |-> json.SessionToken,
   Expiration |-> DateParse(json.Expiration)]

\* the expiry test with its comparison reversed
isExpiredReversed(expiration, nowMs) == expiration > nowMs

\* creds.Expiration.getTime() < Date.now()
isExpired(expiration, nowMs) == expiration < nowMs

\* getCachedSessionCredentials: threw is TRUE when it rethrows a read error,
\* value is <<creds>> on a hit and <<>> for undefined
getCachedSessionCredentials(fs, name, nowMs) ==
  LET r == readFile(fs, name) IN
  IF ~r.ok
  THEN [threw |-> ~isFileNotFoundError(r.code), code |-> r.code, value |-> <<>>]
  ELSE IF ~r.data.parses \/ ~cacheSchemaOk(r.data)
  THEN [threw |-> FALSE, code |-> "", value |-> <<>>]
  ELSE IF isExpired(cacheSchemaData(r.data).Expiration, nowMs)
  THEN [threw |-> FALSE, code |-> "", value |-> <<>>]
  ELSE [threw |-> FALSE, code |-> "", value |-> <<cacheSchemaData(r.data)>>]

\* ------------------------------------------------------------------------
\* Errors
\* ------------------------------------------------------------------------
\* A thrown value: its class, its Code property ("" when it has none) and
\* its message.
NoError == [cls |-> "none", Code |-> "", message |-> ""]

INVALID_MFA_MESSAGE ==
  "MultiFactorAuthentication failed with invalid MFA one time pass code. "

LockError == [cls |-> "Error", Code |-> "", message |-> "lock timeout"]
FsError(code) == [cls |-> "SystemError", Code |-> "", message |-> code]
OpError == [cls |-> "CLIError", Code |-> "", message |-> "item not found"]
SchemaError ==
  [cls |-> "Error", Code |-> "",
   message |-> "1Password item is missing some fields, or they are the wrong type"]
NoCredentialsError ==
  [cls |-> "Error", Code |-> "",
   message |-> "Failed to generate AWS session credentials."]
AssertionError == [cls |-> "AssertionError", Code |-> "", message |-> "assert.ok"]

\* the errors the STS client rejects with
StsErrors ==
  {[cls |-> "STSServiceException", Code |-> "AccessDenied",
    message |-> INVALID_MFA_MESSAGE],
   [cls |-> "STSServiceException", Code |-> "AccessDenied",
    message |-> "User is not authorized to perform: sts:AssumeRole"],
   [cls |-> "Error", Code |-> "", message |-> "getaddrinfo ENOTFOUND"]}

\* the classification without its message test
isInvalidMfaErrorAnyMessage(e) ==
  /\ e.cls = "STSServiceException"
  /\ e.Code # ""
  /\ e.Code = "AccessDenied"

isInvalidMfaError(e) ==
  /\ e.cls = "STSServiceException"
  /\ e.Code # ""
  /\ e.Code = "AccessDenied"
  /\ e.message = INVALID_MFA_MESSAGE

\* ------------------------------------------------------------------------
\* Secret resolver
\* ------------------------------------------------------------------------
\* A field of a 1Password item, as keyBy(item.fields, "label") holds it
\* under its label; NoField is an absent label.
NoField == [present |-> FALSE, type |-> "", value |-> undefined, totp |-> undefined]
Field(type, value, totp) ==
  [present |-> TRUE, type |-> type, value |-> value, totp |-> totp]

AKID == <<"A", "K">>
SECRET == <<"S", "K">>
SERIAL == <<"M", "F", "A">>

\* the code the one-time password field shows during the epoch of `t`
TotpCode(t) == NatToDigits(t \div TotpPeriod)

\* the items op.item.get may return at time t
Items(t) ==
  [accessKeyId : {Field("STRING", AKID, undefined)},
   secretAccessKey : {Field("CONCEALED", SECRET, undefined)},
   mfaSerial : {NoField, Field("STRING", SERIAL, undefined)},
   oneTimePassword : {NoField, Field("OTP", <<"o">>, TotpCode(t))}]
  \cup
  {[accessKeyId |-> Field("STRING", AKID, undefined),
    secretAccessKey |-> NoField,
    mfaSerial |-> NoField,
    oneTimePassword |-> NoField]}

\* the first object of opSchema
baseSchemaOk(item) ==
  /\ item.accessKeyId.present
  /\ item.accessKeyId.type = "STRING"
  /\ item.accessKeyId.value # undefined
  /\ item.secretAccessKey.present
  /\ item.secretAccessKey.type \in {"CONCEALED", "STRING"}
  /\ item.secretAccessKey.value # undefined

\* the union of opSchema: both MFA fields, well typed, or neither
mfaSchemaBoth(item) ==
  /\ item.mfaSerial.present
  /\ item.mfaSerial.type = "STRING"
  /\ item.mfaSerial.value # undefined
  /\ item.oneTimePassword.present
  /\ item.oneTimePassword.type = "OTP"
  /\ item.oneTimePassword.totp # undefined

mfaSchemaNeither(item) ==
  /\ ~item.mfaSerial.present
  /\ ~item.oneTimePassword.present

\* a schema that accepts an item whatever its MFA fields
opSchemaLenient(item) == baseSchemaOk(item)

\* opSchema.safeParse(...).success
opSchemaOk(item) ==
  baseSchemaOk(item) /\ (mfaSchemaBoth(item) \/ mfaSchemaNeither(item))

\* the AwsKeys get1pAwsKeys returns for an item that passes opSchema
AwsKeysOf(item) ==
  [accessKeyId |-> item.accessKeyId.value,
   secretAccessKey |-> item.secretAccessKey.value,
   mfaSerial |-> IF item.mfaSerial.present THEN item.mfaSerial.value ELSE undefined,
   totp |-> IF item.oneTimePassword.present
            THEN item.oneTimePassword.totp ELSE undefined]

\* get1pAwsKeys on the item op returned: <<keys>>, or <<>> when it throws
get1pAwsKeys(item) == IF opSchemaOk(item) THEN <<AwsKeysOf(item)>> ELSE <<>>

\* ------------------------------------------------------------------------
\* Session exchanger
\* ------------------------------------------------------------------------
\* the Credentials STS issues to invocation p on its attempt number n
IssuedCredentials(p, n, t) ==
  [AccessKeyId |-> <<"A", "S", "I", "A">>,
   SecretAccessKey |-> <<"s">>,
   SessionToken |-> <<"t", p, DigitChars[n + 1]>>,
   Expiration |-> (t + SessionTtl) * 1000]

\* the responses of STS: Credentials, no Credentials, or a rejection; the
\* invalid-code rejection answers a request that carried a code
StsResponses(p, n, t, keys) ==
  {[kind |-> "ok", creds |-> <<IssuedCredentials(p, n, t)>>, error |-> NoError],
   [kind |-> "empty", creds |-> <<>>, error |-> NoError]}
  \cup {[kind |-> "error", creds |-> <<>>, error |-> e] :
          e \in {x \in StsErrors : isInvalidMfaError(x) => keys.totp # undefined}}

\* getNewSessionCredentials on a response: the Credentials or the error thrown
getNewSessionCredentials(resp) ==
  CASE resp.kind = "error" -> [creds |-> <<>>, error |-> resp.error]
    [] resp.creds = <<>> -> [creds |-> <<>>, error |-> NoCredentialsError]
    [] OTHER -> [creds |-> resp.creds, error |-> NoError]

\* the parameters getNewSessionCredentials passes to STS, with the call it
\* makes; a parameter the call does not take is undefined
StsRequest(o, k) ==
  IF o.roleArn = undefined
  THEN [call |-> "getSessionToken",
        SerialNumber |-> k.mfaSerial,
        TokenCode |-> k.totp,
        RoleArn |-> undefined,
        RoleSessionName |-> undefined,
        DurationSeconds |-> SessionTtl]
  ELSE [call |-> "assumeRole",
        SerialNumber |-> k.mfaSerial,
        TokenCode |-> k.totp,
        RoleArn |-> o.roleArn,
        RoleSessionName |-> o.roleSessionName,
        DurationSeconds |-> SessionTtl]

\* the seconds elapsed in the epoch instead of those remaining
getTotpSecondsElapsed(t) == t % TotpPeriod

getTotpSecondsRemaining(t) == TotpPeriod - (t % TotpPeriod)

\* ------------------------------------------------------------------------
\* Command-line options
\* ------------------------------------------------------------------------
\* the options of `opaws --op-item a`: caching is on unless --no-cache
BaseOptions ==
  [opAccount |-> undefined, opVault |-> undefined, opItem |-> <<"a">>,
   roleArn |-> undefined, roleSessionName |-> undefined, cache |-> TRUE]

\* the invocations of the acquisition model: two items, with and without
\* --no-cache.  Init starts p1 on the first item and p2 with caching on.
MainOptions ==
  {[BaseOptions EXCEPT !.opItem = it, !.cache = c] :
     it \in {<<"a">>, <<"b">>}, c \in BOOLEAN}

CacheFiles == {getCacheFilename(o) : o \in MainOptions}

\* a record left in the cache by an earlier invocation, expiring at second t
CachedRecord(t) ==
  TextFile(JSONstringify([AccessKeyId |-> <<"A", "S", "I", "A">>,
                          SecretAccessKey |-> <<"s">>,
                          SessionToken |-> <<"t", "old">>,
                          Expiration |-> t * 1000]))

\* what a cache path may hold when the invocations start
InitialFiles ==
  {MissingFile, DirFile, TextFile(NoJson),
   CachedRecord(StartTime + 1), CachedRecord(MaxNow + 1)}

\* what the cache path of a second item may hold
OtherFiles == {MissingFile, CachedRecord(MaxNow + 1)}

\* ------------------------------------------------------------------------
\* State
\* ------------------------------------------------------------------------
VARIABLES
  now,         \* wall clock, whole seconds
  files,       \* the cache files of the temporary directory
  lockFile,    \* TRUE when the lock token opaws.lock exists
  holders,     \* invocations whose lock() resolved and that have not released
  opts,        \* options of each invocation
  pc,          \* position of each invocation
  i,           \* loop counter of generateCredentials
  maybeCreds,  \* maybeCreds of generateCredentials, <<>> for undefined
  keys,        \* keys of generateCredentials, <<>> before get1pAwsKeys returned
  wakeAt,      \* second at which the retry pause ends
  err,         \* the error the invocation threw, NoError when none
  stdout,      \* the objects written to stdout
  log,         \* history: the operations of the invocation, in order
  item,        \* history: the item op returned to the last get1pAwsKeys
  stsSeen,     \* history: the STS response of each exchange
  stsReq,      \* history: the STS request of each exchange
  stderr,      \* the lines written to stderr
  isTTY,       \* process.stdout.isTTY of each invocation
  exitCode,    \* exit status of the process, -1 while it runs
  keyOf,       \* key specification: the cache filename computed
  wrote,       \* cache specification: the last write, <<>> when none
  got,         \* cache specification: the last read, <<>> when none
  tmpEntries,  \* names in the temporary directory besides cache files and lock
  cleared      \* clear specification: the run of `util clear`, <<>> when none

exitVars == <<stderr, isTTY, exitCode>>
procVars == <<opts, pc, i, maybeCreds, keys, wakeAt, err, stdout, log, item,
              stsSeen, stsReq, exitVars>>
probeVars == <<keyOf, wrote, got, cleared>>
vars == <<now, files, lockFile, holders, procVars, probeVars, tmpEntries>>

\* p no longer runs code that reads the clock
Terminated(p) == pc[p] \in {"done", "fatal", "notify", "exited"}

Append1(f, p, x) == [f EXCEPT ![p] = Append(@, x)]

\* ------------------------------------------------------------------------
\* Init
\* ------------------------------------------------------------------------
ProbeIdle ==
  /\ keyOf = [p \in Procs |-> <<>>]
  /\ wrote = <<>>
  /\ got = <<>>
  /\ cleared = <<>>

\* p1 is run from a terminal, p2 by an SDK that reads its stdout through a
\* pipe
ProcIdle ==
  /\ pc = [p \in Procs |-> "start"]
  /\ i = [p \in Procs |-> 0]
  /\ maybeCreds = [p \in Procs |-> <<>>]
  /\ keys = [p \in Procs |-> <<>>]
  /\ wakeAt = [p \in Procs |-> 0]
  /\ err = [p \in Procs |-> NoError]
  /\ stdout = [p \in Procs |-> <<>>]
  /\ log = [p \in Procs |-> <<>>]
  /\ item = [p \in Procs |-> <<>>]
  /\ stsSeen = [p \in Procs |-> <<>>]
  /\ stsReq = [p \in Procs |-> <<>>]
  /\ stderr = [p \in Procs |-> <<>>]
  /\ isTTY = [p \in Procs |-> p = "p1"]
  /\ exitCode = [p \in Procs |-> -1]

Init ==
  /\ now = StartTime
  /\ opts \in [Procs -> MainOptions]
  /\ opts["p1"].opItem = BaseOptions.opItem
  /\ opts["p2"].cache
  /\ files \in [CacheFiles -> InitialFiles]
  /\ \A f \in CacheFiles :
       (\A p \in Procs : getCacheFilename(opts[p]) # f) => files[f] = MissingFile
  /\ files[getCacheFilename(opts["p2"])] \in OtherFiles
       \/ opts["p2"].opItem = opts["p1"].opItem
  /\ lockFile = FALSE
  /\ holders = {}
  /\ tmpEntries = {}
  /\ ProcIdle
  /\ ProbeIdle

\* ------------------------------------------------------------------------
\* withLockInternal
\* ------------------------------------------------------------------------
\* an ensure step that replaces the lock token and with it the lock on it
EnsureResetsLock(p) ==
  /\ pc[p] = "start"
  /\ tmpEntries' = tmpEntries \cup {logFilename(p, StartTime * 1000)}
  /\ lockFile' = TRUE
  /\ holders' = {}
  /\ pc' = [pc EXCEPT ![p] = "jitter"]
  /\ log' = Append1(log, p, "ensure")
  /\ UNCHANGED <<now, files, opts, i, maybeCreds, keys, wakeAt, err,
                 stdout, item, stsSeen, stsReq, probeVars, exitVars>>

\* logger.info(`Generating credentials`), which makes the File transport
\* create the log file of the invocation, then
\* closeSync(openSync(LOCK_FILE_NAME, "w"))
Ensure(p) ==
  /\ pc[p] = "start"
  /\ tmpEntries' = tmpEntries \cup {logFilename(p, StartTime * 1000)}
  /\ lockFile' = TRUE
  /\ pc' = [pc EXCEPT ![p] = "jitter"]
  /\ log' = Append1(log, p, "ensure")
  /\ UNCHANGED <<now, files, holders, opts, i, maybeCreds, keys, wakeAt, err,
                 stdout, item, stsSeen, stsReq, probeVars, exitVars>>

\* the randomized delay before lock(); the clock runs on its own
Jitter(p) ==
  /\ pc[p] = "jitter"
  /\ pc' = [pc EXCEPT ![p] = "lock"]
  /\ log' = Append1(log, p, "jitter")
  /\ UNCHANGED <<now, tmpEntries, files, lockFile, holders, opts, i, maybeCreds, keys,
                 wakeAt, err, stdout, item, stsSeen, stsReq, probeVars, exitVars>>

\* lock() finds the lock free.  Its test and its taking of the lock are two
\* steps: two invocations that ask at the same instant both find it free.
LockCheck(p) ==
  /\ pc[p] = "lock"
  /\ holders = {}
  /\ pc' = [pc EXCEPT ![p] = "granted"]
  /\ UNCHANGED <<now, tmpEntries, files, lockFile, holders, opts, i, maybeCreds, keys,
                 wakeAt, err, stdout, log, item, stsSeen, stsReq, probeVars, exitVars>>

\* the loop with --no-cache ignored
LoopNextAlwaysRead(n, mc, o) ==
  IF n < MaxAttempts /\ mc = <<>> THEN "cacheRead" ELSE "write"

\* the loop leaving without the cache write once it has credentials
LoopNextSkipsWrite(n, mc, o) ==
  IF n < MaxAttempts /\ mc = <<>>
  THEN (IF o.cache THEN "cacheRead" ELSE "resolve")
  ELSE (IF mc = <<>> THEN "write" ELSE "finally")

\* the loop exchanging again with the keys of the first attempt
LoopNextReusesKeys(n, mc, o) ==
  IF n < MaxAttempts /\ mc = <<>>
  THEN (IF n > 0 THEN "exchange" ELSE IF o.cache THEN "cacheRead" ELSE "resolve")
  ELSE "write"

\* the position the loop of generateCredentials continues at
LoopNext(n, mc, o) ==
  IF n < MaxAttempts /\ mc = <<>>
  THEN (IF o.cache THEN "cacheRead" ELSE "resolve")
  ELSE "write"

\* lock() resolves: the callback starts
LockTake(p) ==
  /\ pc[p] = "granted"
  /\ holders' = holders \cup {p}
  /\ pc' = [pc EXCEPT ![p] = LoopNext(i[p], maybeCreds[p], opts[p])]
  /\ log' = Append1(log, p, "acquire")
  /\ UNCHANGED <<now, tmpEntries, files, lockFile, opts, i, maybeCreds, keys, wakeAt, err,
                 stdout, item, stsSeen, stsReq, probeVars, exitVars>>

\* a rejected lock() that is swallowed: the callback runs without the lock
LockTimeoutProceeds(p) ==
  /\ pc[p] = "lock"
  /\ holders # {}
  /\ pc' = [pc EXCEPT ![p] = LoopNext(i[p], maybeCreds[p], opts[p])]
  /\ UNCHANGED <<now, tmpEntries, files, lockFile, holders, opts, i, maybeCreds, keys,
                 wakeAt, err, stdout, log, item, stsSeen, stsReq, probeVars, exitVars>>

\* lock() rejects while another invocation holds the lock: the error leaves
\* withLockInternal before its try block
LockTimeout(p) ==
  /\ pc[p] = "lock"
  /\ holders # {}
  /\ err' = [err EXCEPT ![p] = LockError]
  /\ pc' = [pc EXCEPT ![p] = "fatal"]
  /\ UNCHANGED <<now, tmpEntries, files, lockFile, holders, opts, i, maybeCreds, keys,
                 wakeAt, stdout, log, item, stsSeen, stsReq, probeVars, exitVars>>

\* the lock after release()
release(h, p) == h \ {p}

\* release() after the callback instead of in a finally block
releasesOnSuccess(e) == e = NoError

\* a callback whose lock is never given back
releasesNever(e) == FALSE

\* whether the finally block of withLockInternal runs release() when the
\* callback ended with error e
releasesOn(e) == TRUE

\* finally { release(); }, then the return or the rethrow
Finally(p) ==
  /\ pc[p] = "finally"
  /\ IF releasesOn(err[p])
     THEN /\ holders' = release(holders, p)
          /\ log' = Append1(log, p, "release")
     ELSE UNCHANGED <<holders, log>>
  /\ pc' = [pc EXCEPT ![p] = IF err[p] = NoError THEN "output" ELSE "fatal"]
  /\ UNCHANGED <<now, tmpEntries, files, lockFile, opts, i, maybeCreds, keys, wakeAt, err,
                 stdout, item, stsSeen, stsReq, probeVars, exitVars>>

\* ------------------------------------------------------------------------
\* generateCredentials: the callback run under the lock
\* ------------------------------------------------------------------------
\* a cache read that deletes a file it cannot parse or validate
CacheReadRepairsInvalid(p) ==
  /\ pc[p] = "cacheRead"
  /\ LET name == getCacheFilename(opts[p])
         r == getCachedSessionCredentials(files, name, now * 1000)
         rd == readFile(files, name)
     IN /\ maybeCreds' = [maybeCreds EXCEPT ![p] = r.value]
        /\ err' = [err EXCEPT ![p] = IF r.threw THEN FsError(r.code) ELSE NoError]
        /\ pc' = [pc EXCEPT ![p] =
                    IF r.threw \/ r.value # <<>> THEN "finally" ELSE "resolve"]
        /\ files' = IF rd.ok /\ (~rd.data.parses \/ ~cacheSchemaOk(rd.data))
                    THEN [files EXCEPT ![name] = MissingFile]
                    ELSE files
  /\ log' = Append1(log, p, "read")
  /\ UNCHANGED <<now, tmpEntries, lockFile, holders, opts, i, keys, wakeAt,
                 stdout, item, stsSeen, stsReq, probeVars, exitVars>>

\* a cache read that deletes the record it finds expired
CacheReadPurgesExpired(p) ==
  /\ pc[p] = "cacheRead"
  /\ LET name == getCacheFilename(opts[p])
         r == getCachedSessionCredentials(files, name, now * 1000)
         rd == readFile(files, name)
     IN /\ maybeCreds' = [maybeCreds EXCEPT ![p] = r.value]
        /\ err' = [err EXCEPT ![p] = IF r.threw THEN FsError(r.code) ELSE NoError]
        /\ pc' = [pc EXCEPT ![p] =
                    IF r.threw \/ r.value # <<>> THEN "finally" ELSE "resolve"]
        /\ files' = IF rd.ok /\ rd.data.parses /\ cacheSchemaOk(rd.data)
                       /\ r.value = <<>>
                    THEN [files EXCEPT ![name] = MissingFile]
                    ELSE files
  /\ log' = Append1(log, p, "read")
  /\ UNCHANGED <<now, tmpEntries, lockFile, holders, opts, i, keys, wakeAt,
                 stdout, item, stsSeen, stsReq, probeVars, exitVars>>

\* maybeCreds = await getCachedSessionCredentials(options);
\* if (maybeCreds != null) return maybeCreds;
CacheRead(p) ==
  /\ pc[p] = "cacheRead"
  /\ \E name \in {getCacheFilename(opts[p])} :
     \E r \in {getCachedSessionCredentials(files, name, now * 1000)} :
        /\ maybeCreds' = [maybeCreds EXCEPT ![p] = r.value]
        /\ err' = [err EXCEPT ![p] = IF r.threw THEN FsError(r.code) ELSE NoError]
        /\ pc' = [pc EXCEPT ![p] =
                    IF r.threw \/ r.value # <<>> THEN "finally" ELSE "resolve"]
  /\ log' = Append1(log, p, "read")
  /\ UNCHANGED <<now, tmpEntries, files, lockFile, holders, opts, i, keys, wakeAt, stdout,
                 item, stsSeen, stsReq, probeVars, exitVars>>

\* const keys = get1pAwsKeys(options), op.item.get throwing
ResolveThrows(p) ==
  /\ pc[p] = "resolve"
  /\ item' = [item EXCEPT ![p] = <<>>]
  /\ err' = [err EXCEPT ![p] = OpError]
  /\ pc' = [pc EXCEPT ![p] = "finally"]
  /\ log' = Append1(log, p, "resolve")
  /\ UNCHANGED <<now, tmpEntries, files, lockFile, holders, opts, i, maybeCreds, keys,
                 wakeAt, stdout, stsSeen, stsReq, probeVars, exitVars>>

\* const keys = get1pAwsKeys(options), op.item.get returning an item
Resolve(p) ==
  /\ pc[p] = "resolve"
  /\ \E it \in Items(now) :
       LET k == get1pAwsKeys(it) IN
       /\ item' = [item EXCEPT ![p] = <<it>>]
       /\ IF k = <<>>
          THEN /\ err' = [err EXCEPT ![p] = SchemaError]
               /\ pc' = [pc EXCEPT ![p] = "finally"]
               /\ UNCHANGED keys
          ELSE /\ keys' = [keys EXCEPT ![p] = k]
               /\ pc' = [pc EXCEPT ![p] = "exchange"]
               /\ UNCHANGED err
  /\ log' = Append1(log, p, "resolve")
  /\ UNCHANGED <<now, tmpEntries, files, lockFile, holders, opts, i, maybeCreds, wakeAt,
                 stdout, stsSeen, stsReq, probeVars, exitVars>>

\* the catch clause without its attempt test
rethrowsUnclassified(e, n) == ~isInvalidMfaError(e)

\* the catch clause of the loop: rethrow unless this is the first attempt
\* and the error is the invalid-code rejection
rethrows(e, n) == ~isInvalidMfaError(e) \/ n > 0

\* try { maybeCreds = await getNewSessionCredentials(options, keys); }
\* catch (e) { ... }, up to the start of the pause
Exchange(p) ==
  /\ pc[p] = "exchange"
  /\ \E resp \in StsResponses(p, i[p], now, keys[p][1]) :
       LET r == getNewSessionCredentials(resp) IN
       /\ stsSeen' = Append1(stsSeen, p, resp)
       /\ stsReq' = Append1(stsReq, p, StsRequest(opts[p], keys[p][1]))
       /\ IF r.error = NoError
          THEN /\ maybeCreds' = [maybeCreds EXCEPT ![p] = r.creds]
               /\ i' = [i EXCEPT ![p] = @ + 1]
               /\ pc' = [pc EXCEPT ![p] = LoopNext(i[p] + 1, r.creds, opts[p])]
               /\ log' = Append1(log, p, "exchange")
               /\ UNCHANGED <<err, wakeAt>>
          ELSE IF rethrows(r.error, i[p])
          THEN /\ err' = [err EXCEPT ![p] = r.error]
               /\ pc' = [pc EXCEPT ![p] = "finally"]
               /\ log' = Append1(log, p, "exchange")
               /\ UNCHANGED <<maybeCreds, i, wakeAt>>
          ELSE /\ wakeAt' = [wakeAt EXCEPT ![p] =
                               now + getTotpSecondsRemaining(now) + RetryMargin]
               /\ pc' = [pc EXCEPT ![p] = "wait"]
               /\ log' = [log EXCEPT ![p] = @ \o <<"exchange", "wait">>]
               /\ UNCHANGED <<maybeCreds, i, err>>
  /\ UNCHANGED <<now, tmpEntries, files, lockFile, holders, opts, keys, stdout, item,
                 probeVars, exitVars>>

\* the pause ends; i++ and the loop condition
WaitDone(p) ==
  /\ pc[p] = "wait"
  /\ now >= wakeAt[p]
  /\ i' = [i EXCEPT ![p] = @ + 1]
  /\ pc' = [pc EXCEPT ![p] = LoopNext(i[p] + 1, maybeCreds[p], opts[p])]
  /\ UNCHANGED <<now, tmpEntries, files, lockFile, holders, opts, maybeCreds, keys, wakeAt,
                 err, stdout, log, item, stsSeen, stsReq, probeVars, exitVars>>

\* assert.ok(maybeCreds != null); await writeFile(...); return maybeCreds;
Write(p) ==
  /\ pc[p] = "write"
  /\ \E name \in {getCacheFilename(opts[p])} :
     IF maybeCreds[p] = <<>>
     THEN /\ err' = [err EXCEPT ![p] = AssertionError]
          /\ UNCHANGED <<files, log>>
     ELSE /\ log' = Append1(log, p, "write")
          /\ IF writeFileOk(files, name)
             THEN /\ files' = writeFile(files, name, JSONstringify(maybeCreds[p][1]))
                  /\ UNCHANGED err
             ELSE /\ err' = [err EXCEPT ![p] = FsError(EISDIR)]
                  /\ UNCHANGED files
  /\ pc' = [pc EXCEPT ![p] = "finally"]
  /\ UNCHANGED <<now, tmpEntries, lockFile, holders, opts, i, maybeCreds, keys, wakeAt,
                 stdout, item, stsSeen, stsReq, probeVars, exitVars>>

\* console.log(JSON.stringify({ ...creds, Version: 1 }, null, 2))
Output(p) ==
  /\ pc[p] = "output"
  /\ stdout' = Append1(stdout, p, OutputJson(maybeCreds[p][1]))
  /\ pc' = [pc EXCEPT ![p] = "done"]
  /\ log' = Append1(log, p, "stdout")
  /\ UNCHANGED <<now, tmpEntries, files, lockFile, holders, opts, i, maybeCreds, keys,
                 wakeAt, err, item, stsSeen, stsReq, probeVars, exitVars>>

\* the line the Console transport of the logger writes for logger.error(e).
\* The transport is created without stderrLevels, so it writes every level
\* it lets through to stdout.
ConsoleLine(e) == [level |-> "error", message |-> e.message]

\* catch (e) of the top level: two lines on stderr, logger.error(e), then
\* process.exit(1) on a terminal and the desktop notification otherwise
Catch(p) ==
  /\ pc[p] = "fatal"
  /\ stderr' = [stderr EXCEPT ![p] =
                  @ \o <<"Failed to generate credentials.", "Debug log saved to">>]
  /\ stdout' = Append1(stdout, p, ConsoleLine(err[p]))
  /\ IF isTTY[p]
     THEN /\ pc' = [pc EXCEPT ![p] = "exited"]
          /\ exitCode' = [exitCode EXCEPT ![p] = 1]
     ELSE /\ pc' = [pc EXCEPT ![p] = "notify"]
          /\ UNCHANGED exitCode
  /\ UNCHANGED <<now, tmpEntries, files, lockFile, holders, opts, i, maybeCreds, keys,
                 wakeAt, err, log, item, stsSeen, stsReq, probeVars, isTTY>>

\* notifier "click" or "timeout": process.exit(1)
NotifyEvent(p) ==
  /\ pc[p] = "notify"
  /\ pc' = [pc EXCEPT ![p] = "exited"]
  /\ exitCode' = [exitCode EXCEPT ![p] = 1]
  /\ UNCHANGED <<now, tmpEntries, files, lockFile, holders, opts, i, maybeCreds, keys,
                 wakeAt, err, stdout, log, item, stsSeen, stsReq, probeVars, stderr, isTTY>>

\* the notification ends with neither a "click" nor a "timeout" event (it is
\* closed, replied to, or could not be shown): no handler runs, the event
\* loop drains and the process ends with the default exit status
NotifyNoEvent(p) ==
  /\ pc[p] = "notify"
  /\ pc' = [pc EXCEPT ![p] = "exited"]
  /\ exitCode' = [exitCode EXCEPT ![p] = 0]
  /\ UNCHANGED <<now, tmpEntries, files, lockFile, holders, opts, i, maybeCreds, keys,
                 wakeAt, err, stdout, log, item, stsSeen, stsReq, probeVars, stderr, isTTY>>

\* a second passes while some invocation still runs
Tick ==
  /\ now < MaxNow
  /\ \E p \in Procs : ~Terminated(p)
  /\ now' = now + 1
  /\ UNCHANGED <<files, lockFile, holders, procVars, probeVars, tmpEntries>>

Next ==
  \/ \E p \in Procs : Ensure(p)
  \/ \E p \in Procs : Jitter(p)
  \/ \E p \in Procs : LockCheck(p)
  \/ \E p \in Procs : LockTake(p)
  \/ \E p \in Procs : LockTimeout(p)
  \/ \E p \in Procs : CacheRead(p)
  \/ \E p \in Procs : ResolveThrows(p)
  \/ \E p \in Procs : Resolve(p)
  \/ \E p \in Procs : Exchange(p)
  \/ \E p \in Procs : WaitDone(p)
  \/ \E p \in Procs : Write(p)
  \/ \E p \in Procs : Finally(p)
  \/ \E p \in Procs : Output(p)
  \/ \E p \in Procs : Catch(p)
  \/ \E p \in Procs : NotifyEvent(p)
  \/ \E p \in Procs : NotifyNoEvent(p)
  \/ Tick

Spec == Init /\ [][Next]_vars

\* ------------------------------------------------------------------------
\* Key specification: getCacheFilename applied to bounded option values
\* ------------------------------------------------------------------------
KeyChars == {"a", "-", "/"}

\* the parent directory and the other separator, as option values
SpecialValues == {<<".", ".">>, <<"\\">>}

\* the values an option may take: absent, the placeholder's own text, the
\* special values, and the strings over KeyChars of at most MaxOptLen
\* characters
OptionValues ==
  {undefined, DEFAULT} \cup SpecialValues
    \cup UNION {[1..n -> KeyChars] : n \in 0..MaxOptLen}

KeyFields == {"opAccount", "opVault", "opItem", "roleArn", "roleSessionName"}

\* options that differ from BaseOptions in at most one key field; opItem is
\* a required option
KeyOptions ==
  {o \in {[BaseOptions EXCEPT ![f] = v, !.cache = c] :
            f \in KeyFields, v \in OptionValues, c \in BOOLEAN} :
     o.opItem # undefined}

InitKey ==
  /\ now = StartTime
  /\ opts \in [Procs -> KeyOptions]
  /\ files = [f \in CacheFiles |-> MissingFile]
  /\ lockFile = FALSE
  /\ holders = {}
  /\ tmpEntries = {}
  /\ ProcIdle
  /\ ProbeIdle

ComputeKey(p) ==
  /\ keyOf[p] = <<>>
  /\ keyOf' = [keyOf EXCEPT ![p] = getCacheFilename(opts[p])]
  /\ UNCHANGED <<now, tmpEntries, files, lockFile, holders, procVars, wrote, got,
                 cleared>>

NextKey == \E p \in Procs : ComputeKey(p)

SpecKey == InitKey /\ [][NextKey]_vars

\* ------------------------------------------------------------------------
\* Cache specification: the cache store applied to bounded credentials
\* ------------------------------------------------------------------------
\* expirations around the clock range, in milliseconds, on and off a whole
\* second
ProbeExpirations ==
  {t * 1000 + ms : t \in (StartTime - 1)..(MaxNow + 1), ms \in {0, 5, 500}}

ProbeCredentials ==
  [AccessKeyId : {<<"A", "S", "I", "A">>, <<>>},
   SecretAccessKey : {<<"s">>},
   SessionToken : {<<"t">>, <<"T", "1", ".", "5", "Z">>},
   Expiration : ProbeExpirations]

InitCache ==
  /\ now = StartTime
  /\ opts = [p \in Procs |-> BaseOptions]
  /\ \E x \in {MissingFile, DirFile, TextFile(NoJson)} :
       files = [f \in CacheFiles |-> x]
  /\ lockFile = FALSE
  /\ holders = {}
  /\ tmpEntries = {}
  /\ ProcIdle
  /\ ProbeIdle

\* writeFile(getCacheFilename(options), JSON.stringify(creds, null, 2)),
\* once
StoreWrite(name, c) ==
  /\ wrote = <<>>
  /\ writeFileOk(files, name)
  /\ files' = writeFile(files, name, JSONstringify(c))
  /\ wrote' = <<[name |-> name, creds |-> c, at |-> now]>>
  /\ got' = <<>>
  /\ UNCHANGED <<now, tmpEntries, lockFile, holders, procVars, keyOf, cleared>>

\* getCachedSessionCredentials(options), once since the last write
StoreRead(name) ==
  /\ got = <<>>
  /\ got' = <<[name |-> name, at |-> now, file |-> files[name],
               result |-> getCachedSessionCredentials(files, name, now * 1000)]>>
  /\ UNCHANGED <<now, tmpEntries, files, lockFile, holders, procVars, keyOf, wrote,
                 cleared>>

NextCache ==
  \/ \E name \in CacheFiles, c \in ProbeCredentials : StoreWrite(name, c)
  \/ \E name \in CacheFiles : StoreRead(name)
  \/ Tick

SpecCache == InitCache /\ [][NextCache]_vars

\* ------------------------------------------------------------------------
\* Request specification: getNewSessionCredentials applied to bounded
\* options and keys
\* ------------------------------------------------------------------------
\* the keys get1pAwsKeys returns for the items of time t
KeysAt(t) == {get1pAwsKeys(it)[1] : it \in {x \in Items(t) : opSchemaOk(x)}}

\* the call getNewSessionCredentials makes to STS, once per invocation
SendRequest(p, k) ==
  /\ stsReq[p] = <<>>
  /\ stsReq' = Append1(stsReq, p, StsRequest(opts[p], k))
  /\ UNCHANGED <<now, tmpEntries, files, lockFile, holders, opts, pc, i,
                 maybeCreds, keys, wakeAt, err, stdout, log, item, stsSeen,
                 exitVars, probeVars>>

NextRequest == \E p \in Procs, k \in KeysAt(now) : SendRequest(p, k)

SpecRequest == InitKey /\ [][NextRequest]_vars

\* ------------------------------------------------------------------------
\* Fair specification: two invocations of the same key with caching on and a
\* cold cache; each process keeps running and the clock keeps advancing
\* ------------------------------------------------------------------------
InitLive ==
  /\ Init
  /\ \A p \in Procs : opts[p] = BaseOptions
  /\ \A f \in CacheFiles : files[f] = MissingFile

\* a pause that ends after the last second the clock tracks: now = MaxNow
\* stands for that second and every later one
WaitDoneLate(p) ==
  /\ pc[p] = "wait"
  /\ now = MaxNow
  /\ wakeAt[p] > MaxNow
  /\ i' = [i EXCEPT ![p] = @ + 1]
  /\ pc' = [pc EXCEPT ![p] = LoopNext(i[p] + 1, maybeCreds[p], opts[p])]
  /\ UNCHANGED <<now, tmpEntries, files, lockFile, holders, opts, maybeCreds, keys, wakeAt,
                 err, stdout, log, item, stsSeen, stsReq, probeVars, exitVars>>

\* the steps of the process of invocation p
ProcNext(p) ==
  \/ Ensure(p)
  \/ Jitter(p)
  \/ LockCheck(p)
  \/ LockTake(p)
  \/ LockTimeout(p)
  \/ CacheRead(p)
  \/ ResolveThrows(p)
  \/ Resolve(p)
  \/ Exchange(p)
  \/ WaitDone(p)
  \/ WaitDoneLate(p)
  \/ Write(p)
  \/ Finally(p)
  \/ Output(p)
  \/ Catch(p)
  \/ NotifyEvent(p)
  \/ NotifyNoEvent(p)

\* a second of some invocation's pause passes; the other steps of this
\* specification take no time
TickLive ==
  /\ now < MaxNow
  /\ \E p \in Procs : pc[p] = "wait" /\ now < wakeAt[p]
  /\ now' = now + 1
  /\ UNCHANGED <<files, lockFile, holders, procVars, probeVars, tmpEntries>>

NextLive == (\E p \in Procs : ProcNext(p)) \/ TickLive

\* every process is scheduled while it has a step to take (a pending
\* lock(), op, STS or file-system call returns), and time passes
SpecLive ==
  /\ InitLive
  /\ [][NextLive]_vars
  /\ \A p \in Procs : WF_vars(ProcNext(p))
  /\ WF_vars(TickLive)

\* ------------------------------------------------------------------------
\* Wait specification: the retry loop of one invocation, started inside its
\* locked span at every second of two code epochs
\* ------------------------------------------------------------------------
ProbeSeconds == 61

WaitProc == "p1"

InitWait ==
  /\ now \in 0..ProbeSeconds
  /\ opts = [p \in Procs |-> [BaseOptions EXCEPT !.cache = FALSE]]
  /\ files = [f \in CacheFiles |-> MissingFile]
  /\ lockFile = TRUE
  /\ holders = {WaitProc}
  /\ tmpEntries = {}
  /\ pc = [p \in Procs |-> IF p = WaitProc THEN "resolve" ELSE "start"]
  /\ i = [p \in Procs |-> 0]
  /\ maybeCreds = [p \in Procs |-> <<>>]
  /\ keys = [p \in Procs |-> <<>>]
  /\ wakeAt = [p \in Procs |-> 0]
  /\ err = [p \in Procs |-> NoError]
  /\ stdout = [p \in Procs |-> <<>>]
  /\ log = [p \in Procs |->
              IF p = WaitProc THEN <<"ensure", "jitter", "acquire">> ELSE <<>>]
  /\ item = [p \in Procs |-> <<>>]
  /\ stsSeen = [p \in Procs |-> <<>>]
  /\ stsReq = [p \in Procs |-> <<>>]
  /\ stderr = [p \in Procs |-> <<>>]
  /\ isTTY = [p \in Procs |-> p = "p1"]
  /\ exitCode = [p \in Procs |-> -1]
  /\ ProbeIdle

\* a second of the pause passes
TickWait ==
  /\ pc[WaitProc] = "wait"
  /\ now < wakeAt[WaitProc]
  /\ now' = now + 1
  /\ UNCHANGED <<files, lockFile, holders, procVars, probeVars, tmpEntries>>

NextWait ==
  \/ Resolve(WaitProc)
  \/ Exchange(WaitProc)
  \/ WaitDone(WaitProc)
  \/ TickWait

SpecWait == InitWait /\ [][NextWait]_vars

\* ------------------------------------------------------------------------
\* Clear specification: `opaws util clear` applied to bounded directories
\* ------------------------------------------------------------------------
LOCK_BASENAME == <<"o", "p", "a", "w", "s", ".", "l", "o", "c", "k">>

\* the name of a file of the temporary directory, without the directory
basename(path) == SubSeq(path, Len(TMPDIR) + 2, Len(path))

\* log files of two invocations, and a file whose name only resembles one
LogNames == {logFilename(p, StartTime * 1000) : p \in Procs}
StrayNames == {<<"o", "p", "a", "w", "s", "-", "l", "o", "g">>}

ClearOptions == [logs : BOOLEAN, cache : BOOLEAN, lockFile : BOOLEAN]

\* readdir(tmpdir())
readdir(fs, lock, tmp) ==
  {basename(f) : f \in {g \in DOMAIN fs : fs[g].kind # "missing"}}
    \cup tmp \cup (IF lock THEN {LOCK_BASENAME} ELSE {})

\* a purge that ignores its options
clearAllAlways(o) == TRUE

\* const all = !options.cache && !options.logs && !options.lockFile
clearAll(o) == ~o.cache /\ ~o.logs /\ ~o.lockFile

InitClear ==
  /\ now = StartTime
  /\ opts = [p \in Procs |-> BaseOptions]
  /\ files \in [CacheFiles -> {MissingFile, CachedRecord(MaxNow + 1)}]
  /\ lockFile \in BOOLEAN
  /\ holders = {}
  /\ tmpEntries \in SUBSET (LogNames \cup StrayNames)
  /\ ProcIdle
  /\ ProbeIdle

\* the action of the clear command, once
Clear(o) ==
  /\ cleared = <<>>
  /\ LET entries == readdir(files, lockFile, tmpEntries)
         all == clearAll(o)
         logFiles == IF o.logs \/ all
                     THEN {e \in entries : startsWith(e, LOG_PREFIX)} ELSE {}
         cacheFiles == IF o.cache \/ all
                       THEN {e \in entries : startsWith(e, CACHE_PREFIX \o <<"-">>)}
                       ELSE {}
         removed == logFiles \cup cacheFiles
         out1 == IF o.logs \/ all
                 THEN <<[text |-> "Removed log files.", n |-> Cardinality(logFiles)]>>
                 ELSE <<>>
         out2 == IF o.cache \/ all
                 THEN <<[text |-> "Removed cache files.", n |-> Cardinality(cacheFiles)]>>
                 ELSE <<>>
         out3 == IF o.lockFile \/ all
                 THEN (IF lockFile
                       THEN <<[text |-> "Lock file removed.", n |-> 1]>>
                       ELSE <<[text |-> "Lock file does not exist.", n |-> 0]>>)
                 ELSE <<>>
     IN /\ files' = [f \in DOMAIN files |->
                       IF basename(f) \in removed THEN MissingFile ELSE files[f]]
        /\ tmpEntries' = tmpEntries \ removed
        /\ lockFile' = IF o.lockFile \/ all THEN FALSE ELSE lockFile
        /\ cleared' = <<[options |-> o,
                         files |-> files, lockFile |-> lockFile,
                         tmpEntries |-> tmpEntries,
                         threw |-> FALSE,
                         out |-> out1 \o out2 \o out3]>>
  /\ UNCHANGED <<now, holders, procVars, keyOf, wrote, got>>

NextClear == \E o \in ClearOptions : Clear(o)

SpecClear == InitClear /\ [][NextClear]_vars

\* ------------------------------------------------------------------------
\* Properties
\* ------------------------------------------------------------------------
Count(seq, x) == Cardinality({k \in 1..Len(seq) : seq[k] = x})

\* index of the last occurrence of x in seq, 0 when there is none
LastIndex(seq, x) ==
  IF \E k \in 1..Len(seq) : seq[k] = x
  THEN CHOOSE k \in 1..Len(seq) :
         seq[k] = x /\ \A m \in (k + 1)..Len(seq) : seq[m] # x
  ELSE 0

\* after the last x of its log, p did nothing but release the lock
NothingAfter(p, x) ==
  \A k \in (LastIndex(log[p], x) + 1)..Len(log[p]) : log[p][k] = "release"

\* p is inside its locked span: lock() resolved, release() not yet called
InSpan(p) == pc[p] \in {"cacheRead", "resolve", "exchange", "wait", "write", "finally"}

Failing(p) ==
  pc[p] \in {"finally", "fatal", "notify", "exited"} /\ err[p] # NoError

\* the classified InvalidMfaCode condition, on an STS response
InvalidMfaCode(resp) ==
  /\ resp.kind = "error"
  /\ resp.error.cls = "STSServiceException"
  /\ resp.error.Code = "AccessDenied"
  /\ resp.error.message = INVALID_MFA_MESSAGE

\* a cache file holding a well-formed record that expires after second t
WellFormedEntry(file) ==
  /\ file.kind = "file"
  /\ file.data.parses
  /\ file.data.AccessKeyId # undefined
  /\ file.data.SecretAccessKey # undefined
  /\ file.data.SessionToken # undefined
  /\ isDatetime(file.data.Expiration)

EntryCredentials(file) ==
  [AccessKeyId |-> file.data.AccessKeyId,
   SecretAccessKey |-> file.data.SecretAccessKey,
   SessionToken |-> file.data.SessionToken,
   Expiration |-> DateParse(file.data.Expiration)]

FreshEntry(file, t) ==
  WellFormedEntry(file) /\ DateParse(file.data.Expiration) > t * 1000

\* p is at its cache read and takes the step that performs it
ReadsCache(p) == pc[p] = "cacheRead" /\ pc'[p] # "cacheRead"

\* C1 (Lock exclusivity): no two invocations are inside their locked span
\* (cache check, resolution, exchange, retry wait, cache write) at the same
\* time.
C1_LockExclusivity ==
  \A p \in Procs, q \in Procs : p # q => ~(InSpan(p) /\ InSpan(q))

\* C2 (Retry bound): an invocation exchanges at most twice and waits at most
\* once; when its first and second exchange both fail with InvalidMfaCode it
\* has waited once, exchanged twice, and is failing.
C2_RetryBound ==
  \A p \in Procs :
    /\ Count(log[p], "exchange") <= 2
    /\ Count(log[p], "wait") <= 1
    /\ Len(stsSeen[p]) = Count(log[p], "exchange")
    /\ (Len(stsSeen[p]) = 2 /\ InvalidMfaCode(stsSeen[p][1])
          /\ InvalidMfaCode(stsSeen[p][2]))
       => /\ Count(log[p], "wait") = 1
          /\ Failing(p)
          /\ NothingAfter(p, "exchange")

C2_Witness ==
  \E p \in Procs :
    /\ Len(stsSeen[p]) = 2
    /\ InvalidMfaCode(stsSeen[p][1])
    /\ InvalidMfaCode(stsSeen[p][2])
    /\ pc[p] = "fatal"

\* C3 (Retry only for InvalidMfaCode): when the first exchange fails with
\* anything but InvalidMfaCode, or the secret resolution fails, the
\* invocation is failing and has done nothing after that call but release
\* the lock: no wait, no second resolve, no second exchange.
C3_NoRetryOtherwise ==
  \A p \in Procs :
    /\ (Len(stsSeen[p]) >= 1 /\ stsSeen[p][1].kind # "ok"
          /\ ~InvalidMfaCode(stsSeen[p][1]))
       => /\ Failing(p)
          /\ Count(log[p], "exchange") = 1
          /\ Count(log[p], "resolve") = 1
          /\ Count(log[p], "wait") = 0
          /\ NothingAfter(p, "exchange")
    /\ (Count(log[p], "resolve") >= 1
          /\ (item[p] = <<>> \/ get1pAwsKeys(item[p][1]) = <<>>))
       => /\ Failing(p)
          /\ NothingAfter(p, "resolve")

C3_Witness ==
  \E p \in Procs :
    /\ Len(stsSeen[p]) = 1
    /\ stsSeen[p][1].kind = "error"
    /\ stsSeen[p][1].error.Code = "AccessDenied"
    /\ ~InvalidMfaCode(stsSeen[p][1])
    /\ pc[p] = "fatal"

\* p returned from its first cache read with a hit
WarmHit(p) ==
  /\ opts[p].cache
  /\ pc[p] \in {"finally", "output", "done"}
  /\ err[p] = NoError
  /\ Count(log[p], "read") = 1
  /\ Count(log[p], "resolve") = 0

\* C4 (Warm cache): with caching enabled, a first cache read that finds a
\* well-formed record expiring in the future returns that record; from then
\* on the invocation calls neither the resolver nor the exchanger, keeps the
\* record, and what it writes to stdout holds the record's values.
C4_WarmCache ==
  [][\A p \in Procs :
       LET file == files[getCacheFilename(opts[p])] IN
       /\ (ReadsCache(p) /\ Count(log[p], "read") = 0 /\ FreshEntry(file, now))
          => /\ maybeCreds'[p] = <<EntryCredentials(file)>>
             /\ WarmHit(p)'
       /\ WarmHit(p)
          => /\ WarmHit(p)'
             /\ maybeCreds'[p] = maybeCreds[p]
             /\ Count(log'[p], "exchange") = 0
             /\ stdout'[p] # stdout[p]
                => /\ Len(stdout'[p]) = 1
                   /\ stdout'[p][1].AccessKeyId = maybeCreds[p][1].AccessKeyId
                   /\ stdout'[p][1].SecretAccessKey = maybeCreds[p][1].SecretAccessKey
                   /\ stdout'[p][1].SessionToken = maybeCreds[p][1].SessionToken
                   /\ DateParse(stdout'[p][1].Expiration) = maybeCreds[p][1].Expiration
    ]_vars

C4_Witness ==
  \E p \in Procs :
    /\ WarmHit(p)
    /\ pc[p] = "done"
    /\ Len(stdout[p]) = 1
    /\ stdout[p][1].SessionToken = <<"t", "old">>

\* C5 (Cache expiry): a cache read that finds a well-formed record whose
\* expiration is at or before the current time returns absent, and the
\* invocation goes on to resolve.
C5_ExpiredIsAbsent ==
  [][\A p \in Procs :
       LET file == files[getCacheFilename(opts[p])] IN
       (ReadsCache(p) /\ WellFormedEntry(file)
          /\ DateParse(file.data.Expiration) <= now * 1000)
       => (maybeCreds'[p] = <<>> /\ pc'[p] = "resolve")
    ]_vars

\* C6 (No-cache bypass): an invocation run with --no-cache never reads the
\* cache and goes from the lock straight to the resolver; it succeeds only
\* after a resolve and an exchange of its own; and its cache write leaves
\* the file holding exactly the credentials STS just issued to it.
C6_NoCacheBypass ==
  [][\A p \in Procs :
       ~opts[p].cache =>
         /\ pc'[p] # "cacheRead"
         /\ Count(log'[p], "read") = 0
         /\ (pc[p] = "granted" /\ pc'[p] # "granted") => pc'[p] = "resolve"
         /\ pc'[p] \in {"output", "done"}
            => /\ Count(log'[p], "resolve") >= 1
               /\ Count(log'[p], "exchange") >= 1
               /\ Count(log'[p], "write") = 1
         /\ (pc[p] = "write" /\ pc'[p] # "write" /\ err'[p] = NoError)
            => /\ stsSeen[p][Len(stsSeen[p])].kind = "ok"
               /\ files'[getCacheFilename(opts[p])] =
                    TextFile(JSONstringify(stsSeen[p][Len(stsSeen[p])].creds[1]))
    ]_vars

C6_Witness ==
  \E p \in Procs :
    /\ ~opts[p].cache
    /\ pc[p] = "done"
    /\ Len(stdout[p]) = 1
    /\ stdout[p][1].SessionToken = <<"t", p, "0">>
    /\ files[getCacheFilename(opts[p])].data.SessionToken = <<"t", p, "0">>

\* C7 (Cache round-trip): a read of key k at the same second as the write
\* of credentials c to k returns c when c expires after that second.
C7_RoundTrip ==
  (wrote # <<>> /\ got # <<>> /\ got[1].name = wrote[1].name
     /\ got[1].at = wrote[1].at
     /\ wrote[1].creds.Expiration > wrote[1].at * 1000)
  => (~got[1].result.threw /\ got[1].result.value = <<wrote[1].creds>>)

C7_Witness ==
  /\ wrote # <<>>
  /\ got # <<>>
  /\ got[1].name = wrote[1].name
  /\ got[1].at = wrote[1].at
  /\ wrote[1].creds.Expiration % 1000 = 5
  /\ got[1].result.value = <<wrote[1].creds>>

\* the tuple the cache key is derived from
KeyTuple(o) ==
  <<o.opAccount, o.opVault, o.opItem, o.roleArn, o.roleSessionName>>

\* C8 (Key determinism and injectivity): two invocations get the same cache
\* filename exactly when their (account, vault, item, roleArn,
\* roleSessionName) tuples are equal.
C8_KeyInjective ==
  \A p \in Procs, q \in Procs :
    (keyOf[p] # <<>> /\ keyOf[q] # <<>>)
    => ((KeyTuple(opts[p]) = KeyTuple(opts[q])) <=> (keyOf[p] = keyOf[q]))

\* C9 (MFA pairing): the resolver never returns keys with exactly one of
\* mfaSerial / totp; an item with exactly one of the 'mfa serial' and
\* 'one-time password' fields makes the invocation fail with the schema
\* error, and no exchange follows that resolution.
C9_MfaPairing ==
  \A p \in Procs :
    /\ keys[p] # <<>>
       => ((keys[p][1].mfaSerial = undefined) <=> (keys[p][1].totp = undefined))
    /\ (item[p] # <<>>
          /\ item[p][1].mfaSerial.present # item[p][1].oneTimePassword.present)
       => /\ Failing(p)
          /\ err[p] = SchemaError
          /\ NothingAfter(p, "resolve")

C9_Witness ==
  \E p \in Procs :
    /\ item[p] # <<>>
    /\ item[p][1].mfaSerial.present
    /\ ~item[p][1].oneTimePassword.present
    /\ pc[p] = "fatal"

\* C10 (Guaranteed release): an invocation releases the lock at most once
\* and only after acquiring it; once it has left the locked span - to write
\* its output, or terminated - it has released exactly as often as it
\* acquired and no longer holds the lock.
C10_GuaranteedRelease ==
  \A p \in Procs :
    /\ Count(log[p], "release") <= Count(log[p], "acquire")
    /\ Count(log[p], "acquire") <= 1
    /\ InSpan(p) <=> p \in holders
    /\ pc[p] \in {"output", "done", "fatal", "notify", "exited"}
       => /\ p \notin holders
          /\ Count(log[p], "release") = Count(log[p], "acquire")

C10_Witness ==
  \E p \in Procs :
    /\ pc[p] = "fatal"
    /\ err[p] = FsError(EISDIR)
    /\ Count(log[p], "write") = 1
    /\ Count(log[p], "release") = 1

\* the process of invocation p has ended
Ended(p) == pc[p] \in {"done", "exited"}

\* the operations of the locked span and the output, as the log names them
SpanOps == {"read", "resolve", "exchange", "wait", "write", "stdout"}

\* C11 (LockTimeout is fatal): an invocation whose lock() failed is failing,
\* never acquired the lock, never read the cache, resolved, exchanged or
\* wrote the cache, and has written nothing to stdout.
C11_LockTimeoutFatal ==
  \A p \in Procs :
    err[p] = LockError
    => /\ Failing(p)
       /\ p \notin holders
       /\ Count(log[p], "acquire") = 0
       /\ \A k \in 1..Len(log[p]) : log[p][k] \notin SpanOps
       /\ stdout[p] = <<>>

\* C12 (stdout discipline): stdout holds at most one object; a failing
\* invocation has written nothing to it; a successful one has written
\* exactly its credentials with Version = 1; and nothing is written before
\* the locked span has completed successfully and the lock is released.
C12_StdoutDiscipline ==
  \A p \in Procs :
    /\ Len(stdout[p]) <= 1
    /\ err[p] # NoError => stdout[p] = <<>>
    /\ pc[p] = "done"
       => /\ stdout[p] = <<OutputJson(maybeCreds[p][1])>>
          /\ stdout[p][1].Version = 1
    /\ stdout[p] # <<>>
       => /\ err[p] = NoError
          /\ Count(log[p], "release") = 1
          /\ p \notin holders

\* C13 (Cache-layer errors never block): no invocation fails with an error
\* of the file system, and an invocation whose cache read found the file
\* missing, unreadable, unparseable or of the wrong shape goes on to
\* resolve; a failing cache write does not make the invocation fail.
C13_CacheErrorsRecovered ==
  \A p \in Procs :
    /\ err[p].cls # "SystemError"
    /\ (Count(log[p], "read") >= 1 /\ Count(log[p], "resolve") = 0
          /\ ~WellFormedEntry(files[getCacheFilename(opts[p])]))
       => pc[p] = "resolve"

\* index of the first occurrence of x in seq, 0 when there is none
FirstIndex(seq, x) ==
  IF \E k \in 1..Len(seq) : seq[k] = x
  THEN CHOOSE k \in 1..Len(seq) : seq[k] = x /\ \A m \in 1..(k - 1) : seq[m] # x
  ELSE 0

\* the first exchange of p failed with InvalidMfaCode
FirstInvalidMfa(p) == Len(stsSeen[p]) >= 1 /\ InvalidMfaCode(stsSeen[p][1])

\* p exchanged twice, first failing with InvalidMfaCode and then succeeding
RetrySucceeded(p) ==
  FirstInvalidMfa(p) /\ Len(stsSeen[p]) = 2 /\ stsSeen[p][2].kind = "ok"

RetryOrder(p) ==
  LET k1 == FirstIndex(log[p], "exchange")
      k2 == LastIndex(log[p], "exchange")
  IN /\ Len(log[p]) > k1
     /\ log[p][k1 + 1] = "wait"
     /\ Count(log[p], "wait") = 1
     /\ Count(log[p], "exchange") = 2
        => /\ k2 - 1 > k1 + 1
           /\ log[p][k2 - 1] = "resolve"
           /\ \A k \in (k1 + 2)..(k2 - 2) : log[p][k] = "read"
           /\ Len(stsReq[p]) = 2
           /\ stsReq[p][2].TokenCode # stsReq[p][1].TokenCode
     /\ RetrySucceeded(p)
        => /\ maybeCreds[p] = stsSeen[p][2].creds
           /\ pc[p] \in {"write", "finally", "output", "done", "fatal",
                         "notify", "exited"}
           /\ pc[p] \in {"finally", "output", "done"} => Count(log[p], "write") = 1
           /\ pc[p] = "done"
              => stdout[p] = <<OutputJson(stsSeen[p][2].creds[1])>>

FromExchange(p) ==
  stsSeen[p] # <<>> /\ stsSeen[p][Len(stsSeen[p])].kind = "ok"

\* C15 (persist, release, emit), as claimed: every successful invocation,
\* whether its credentials came from an exchange or from the cache, has
\* written the cache, then released the lock, then written to stdout.
C15_WriteReleaseEmit ==
  \A p \in Procs :
    pc[p] = "done"
    => /\ Count(log[p], "write") = 1
       /\ Count(log[p], "release") = 1
       /\ Count(log[p], "stdout") = 1
       /\ LastIndex(log[p], "write") < LastIndex(log[p], "release")
       /\ LastIndex(log[p], "release") < LastIndex(log[p], "stdout")

\* C15 (persist, release, emit), amended: a successful invocation whose
\* credentials came from an exchange has written the cache after that
\* exchange, then released the lock, then written to stdout; one whose
\* credentials were reused from the cache has written no cache file, and
\* has released the lock and then written to stdout.
C15_WriteReleaseEmitAmended ==
  \A p \in Procs :
    pc[p] = "done"
    => /\ Count(log[p], "release") = 1
       /\ Count(log[p], "stdout") = 1
       /\ LastIndex(log[p], "release") < LastIndex(log[p], "stdout")
       /\ FromExchange(p)
          => /\ Count(log[p], "write") = 1
             /\ LastIndex(log[p], "exchange") + 1 = LastIndex(log[p], "write")
             /\ LastIndex(log[p], "write") + 1 = LastIndex(log[p], "release")
       /\ ~FromExchange(p)
          => /\ Count(log[p], "write") = 0
             /\ LastIndex(log[p], "read") + 1 = LastIndex(log[p], "release")

C15_Witness ==
  \E p \in Procs :
    /\ pc[p] = "done"
    /\ FromExchange(p)
    /\ Count(log[p], "write") = 1
    /\ log[p][Len(log[p])] = "stdout"

\* C16 (Failure exit): a process that has ended after a failure of its
\* invocation has a non-zero exit status, on a terminal and behind a pipe,
\* whatever became of the desktop notification.
C16_FailureExit ==
  \A p \in Procs :
    (Ended(p) /\ err[p] # NoError) => (pc[p] = "exited" /\ exitCode[p] > 0)

\* the documented prefix of a generated role session name
SESSION_PREFIX ==
  <<"t", "e", "m", "p", "o", "r", "a", "r", "y", "-",
    "s", "e", "s", "s", "i", "o", "n", "-">>

\* C17 (Role assumption without explicit session name): with roleArn the
\* assumeRole call is made, with a defined session name, which is
\* 'temporary-session-' followed by the current timestamp when
\* roleSessionName is omitted; without roleArn the getSessionToken call is
\* made and carries no role parameter.
C17_RoleSessionNameDefault ==
  \A p \in Procs :
    stsReq[p] # <<>>
    => LET r == stsReq[p][1]
           o == opts[p]
       IN /\ o.roleArn # undefined
             => /\ r.call = "assumeRole"
                /\ r.RoleArn = o.roleArn
                /\ r.RoleSessionName # undefined
                /\ o.roleSessionName = undefined
                   => r.RoleSessionName = SESSION_PREFIX \o NatToDigits(now * 1000)
          /\ o.roleArn = undefined
             => /\ r.call = "getSessionToken"
                /\ r.RoleArn = undefined
                /\ r.RoleSessionName = undefined

\* C18 (Empty exchange response is fatal): an invocation whose last STS
\* response carried no credentials is failing with the 'no credentials'
\* error, which is not classified InvalidMfaCode; it has done nothing after
\* that exchange but release the lock - no wait, no further attempt, no
\* cache write - and has written nothing to stdout.
C18_EmptyResponseFatal ==
  \A p \in Procs :
    (stsSeen[p] # <<>> /\ stsSeen[p][Len(stsSeen[p])].kind = "empty")
    => /\ Failing(p)
       /\ err[p] = NoCredentialsError
       /\ ~isInvalidMfaError(err[p])
       /\ NothingAfter(p, "exchange")
       /\ Count(log[p], "write") = 0
       /\ stdout[p] = <<>>

\* the categories a run of clear with options o selects
Selected(o) ==
  LET none == ~o.logs /\ ~o.cache /\ ~o.lockFile
  IN [logs |-> o.logs \/ none, cache |-> o.cache \/ none,
      lockFile |-> o.lockFile \/ none]

\* the entries of a directory state that are log files
LogEntries(tmp) ==
  {e \in tmp : Len(e) >= 10 /\ SubSeq(e, 1, 10) = LOG_PREFIX}

\* C19 (Purge selection): after a run of clear, every selected category is
\* gone and every unselected category is as it was - with no option all
\* three are selected; other files are untouched; and a selected lock
\* token that did not exist is reported on the console, not thrown.
C19_PurgeSelection ==
  cleared # <<>>
  => LET c == cleared[1]
         sel == Selected(c.options)
     IN /\ tmpEntries \ LogEntries(c.tmpEntries) = c.tmpEntries \ LogEntries(c.tmpEntries)
        /\ IF sel.logs
           THEN LogEntries(tmpEntries) = {}
           ELSE tmpEntries = c.tmpEntries
        /\ IF sel.cache
           THEN \A f \in DOMAIN files : files[f] = MissingFile
           ELSE files = c.files
        /\ IF sel.lockFile
           THEN ~lockFile
           ELSE lockFile = c.lockFile
        /\ ~c.threw
        /\ (sel.lockFile /\ ~c.lockFile)
           => c.out[Len(c.out)].text = "Lock file does not exist."

C19_Witness ==
  /\ cleared # <<>>
  /\ cleared[1].options = [logs |-> FALSE, cache |-> TRUE, lockFile |-> FALSE]
  /\ \E f \in DOMAIN files : cleared[1].files[f] # MissingFile
  /\ \A f \in DOMAIN files : files[f] = MissingFile
  /\ LogEntries(tmpEntries) = LogNames
  /\ lockFile

\* C20 (Cache read is non-mutating): the step in which an invocation reads
\* the cache changes no file of the temporary directory, whatever the cache
\* file holds; a cache file changes only in the cache write of an
\* invocation whose exchange succeeded, which stores those credentials - so
\* an expired entry stays on disk until then.
C20_ReadNonMutating ==
  [][/\ \A p \in Procs :
          ReadsCache(p)
          => /\ files' = files
             /\ lockFile' = lockFile
             /\ tmpEntries' = tmpEntries
     /\ \A f \in DOMAIN files :
          files'[f] # files[f]
          => \E p \in Procs :
               /\ pc[p] = "write"
               /\ pc'[p] = "finally"
               /\ getCacheFilename(opts[p]) = f
               /\ FromExchange(p)
               /\ files'[f] =
                    TextFile(JSONstringify(stsSeen[p][Len(stsSeen[p])].creds[1]))
    ]_vars

\* an invocation has read an expired entry, which is still on disk
C20_Witness ==
  \E p \in Procs :
    LET file == files[getCacheFilename(opts[p])] IN
    /\ pc[p] = "resolve"
    /\ Count(log[p], "read") = 1
    /\ WellFormedEntry(file)
    /\ DateParse(file.data.Expiration) < now * 1000
    /\ file = CachedRecord(StartTime + 1)

\* the failures C21 lists: lock timeout, resolver failure, schema rejection,
\* exchange failure of any kind, empty exchange response
ListedFailure(e) ==
  e \in {LockError, OpError, SchemaError, NoCredentialsError} \cup StsErrors

\* C21 (Failure leaves the cache unchanged): an invocation failing with one
\* of the listed failures never reached its cache write; a cache write
\* directly follows the successful exchange of its invocation; and a cache
\* file changes only in a step in which an invocation that is not failing
\* writes, for its own key, the credentials its exchange returned.
C21_FailureLeavesCache ==
  /\ [](\A p \in Procs :
          /\ (Failing(p) /\ ListedFailure(err[p])) => Count(log[p], "write") = 0
          /\ Count(log[p], "write") >= 1
             => /\ Count(log[p], "write") = 1
                /\ FromExchange(p)
                /\ LastIndex(log[p], "exchange") + 1 = LastIndex(log[p], "write"))
  /\ [][\A f \in DOMAIN files :
          files'[f] # files[f]
          => \E p \in Procs :
               /\ getCacheFilename(opts[p]) = f
               /\ FromExchange(p)
               /\ err[p] = NoError
               /\ err'[p] = NoError
               /\ Count(log[p], "write") = 0
               /\ Count(log'[p], "write") = 1
       ]_vars

\* an invocation failed on the second InvalidMfaCode and the cache file of
\* its key is the unparseable file it found
C21_Witness ==
  \E p \in Procs :
    /\ pc[p] = "exited"
    /\ Len(stsSeen[p]) = 2
    /\ InvalidMfaCode(stsSeen[p][2])
    /\ Count(log[p], "read") = 2
    /\ files[getCacheFilename(opts[p])] = TextFile(NoJson)

\* C22 (Cache access happens only under the lock): an invocation about to
\* read or write the cache has acquired the lock and not released it, and
\* every cache read and cache write it has made came after its acquisition
\* and before its release.
C22_CacheUnderLock ==
  \A p \in Procs :
    /\ pc[p] \in {"cacheRead", "write"}
       => /\ p \in holders
          /\ Count(log[p], "acquire") = 1
          /\ Count(log[p], "release") = 0
    /\ \A k \in 1..Len(log[p]) :
         log[p][k] \in {"read", "write"}
         => /\ FirstIndex(log[p], "acquire") \in 1..(k - 1)
            /\ FirstIndex(log[p], "release") \in {0} \cup ((k + 1)..Len(log[p]))

C22_Witness ==
  \E p \in Procs :
    log[p] = <<"ensure", "jitter", "acquire", "read", "resolve", "exchange",
               "write", "release", "stdout">>

\* the epoch number a one-time code stands for
CodeEpoch(code) == DigitsToNat(code)

\* C23 (Retry wait length): the wait computed at second t is
\* 30 - (t mod 30) + 3 seconds, between 4 and 33 inclusive, and ends in a
\* later 30-second epoch than t; the request of the second exchange carries
\* the code of a later epoch than the one the wait was computed in.
C23_RetryWait ==
  /\ [][\A p \in Procs :
          (pc[p] = "exchange" /\ pc'[p] = "wait")
          => LET pauseSeconds == wakeAt'[p] - now IN
             /\ pauseSeconds = 30 - (now % 30) + 3
             /\ pauseSeconds \in 4..33
             /\ wakeAt'[p] \div 30 > now \div 30
       ]_vars
  /\ [](\A p \in Procs :
          /\ pc[p] = "wait" => wakeAt[p] - now <= 33
          /\ Len(stsReq[p]) = 2
             => /\ now >= wakeAt[p]
                /\ now \div 30 > (wakeAt[p] - 4) \div 30
                /\ stsReq[p][2].TokenCode # undefined
                   => /\ CodeEpoch(stsReq[p][2].TokenCode) > (wakeAt[p] - 4) \div 30
                      /\ CodeEpoch(stsReq[p][2].TokenCode)
                           > CodeEpoch(stsReq[p][1].TokenCode))

\* the longest wait: computed at the first second of an epoch
C23_Witness ==
  \E p \in Procs :
    /\ pc[p] = "wait"
    /\ now % 30 = 0
    /\ now > 0
    /\ wakeAt[p] - now = 33

\* the first exchange of p succeeded
FirstExchangeOk(p) == stsSeen[p] # <<>> /\ stsSeen[p][1].kind = "ok"

\* the second at which STS issued credentials that expire at `expiration`
IssuedAt(expiration) == expiration \div 1000 - SessionTtl

\* C24 (Exchange de-duplication across invocations): of two invocations with
\* caching enabled and the same key, whose cache path is not a directory,
\* both have resolved and made a successful first exchange only when the
\* credentials of one had expired by the time the other's were issued;
\* otherwise the later one found the entry of the first and did not
\* exchange.
C24_ExchangeDedup ==
  \A p \in Procs, q \in Procs :
    (/\ p # q
     /\ opts[p].cache
     /\ opts[q].cache
     /\ getCacheFilename(opts[p]) = getCacheFilename(opts[q])
     /\ files[getCacheFilename(opts[p])].kind # "dir"
     /\ FirstExchangeOk(p)
     /\ FirstExchangeOk(q))
    => LET cp == stsSeen[p][1].creds[1]
           cq == stsSeen[q][1].creds[1]
       IN \/ cp.Expiration < IssuedAt(cq.Expiration) * 1000
          \/ cq.Expiration < IssuedAt(cp.Expiration) * 1000

\* C25 (Termination and lock liveness): eventually every invocation has
\* ended its run, successfully or with a fatal failure, and from then on
\* nobody holds the lock; an invocation that has asked for the lock
\* eventually holds it or has failed with the lock error.
C25_Termination ==
  /\ <>[]((\A p \in Procs : Terminated(p)) /\ holders = {})
  /\ \A p \in Procs :
       (pc[p] = "lock") ~> (p \in holders \/ err[p] = LockError)

\* an invocation was refused the lock held by another one that paused for
\* the retry, and both have ended
C25_Witness ==
  \E p \in Procs, q \in Procs :
    /\ err[p] = LockError
    /\ pc[p] = "exited"
    /\ Count(log[q], "wait") = 1
    /\ pc[q] = "done"
    /\ holders = {}

\* the invocations that completed a cache write of file f
Writers(f) ==
  {p \in Procs : /\ getCacheFilename(opts[p]) = f
                 /\ FromExchange(p)
                 /\ Count(log[p], "write") = 1
                 /\ err[p] = NoError}

\* C26 (Last successful exchange wins): once all invocations have ended, a
\* cache file that some of them wrote holds, whole, the record of the one
\* among them whose exchange was the most recent - never anything else -
\* and a cache file none of them wrote is as it was before they started.
C26_LastExchangeWins ==
  (\A p \in Procs : Terminated(p))
  => \A f \in DOMAIN files :
       IF Writers(f) = {}
       THEN files[f] \in InitialFiles
       ELSE \E p \in Writers(f) :
              LET c == stsSeen[p][Len(stsSeen[p])].creds[1] IN
              /\ files[f] = TextFile(JSONstringify(c))
              /\ \A q \in Writers(f) :
                   stsSeen[q][Len(stsSeen[q])].creds[1].Expiration <= c.Expiration

\* String.prototype.endsWith
endsWith(s, suffix) ==
  Len(s) >= Len(suffix) /\ SubSeq(s, Len(s) - Len(suffix) + 1, Len(s)) = suffix

\* C27 (Cache file location): whatever the option values, the cache path is
\* the temporary directory, one separator, and a name without a separator
\* that starts with 'opaws-cache-' and ends with '.json'; the purge
\* selects that name as a cache file, and it is neither the lock token nor
\* a name the purge selects as a log file.
C27_CacheLocation ==
  \A p \in Procs :
    keyOf[p] # <<>>
    => LET name == basename(keyOf[p]) IN
       /\ keyOf[p] = TMPDIR \o <<"/">> \o name
       /\ \A n \in 1..Len(name) : name[n] # "/"
       /\ startsWith(name, CACHE_PREFIX \o <<"-">>)
       /\ endsWith(name, JSON_EXT)
       /\ name # LOCK_BASENAME
       /\ ~startsWith(name, LOG_PREFIX)

\* the keys of an item named with a separator and of a vault named '..'
C27_Witness ==
  \E p \in Procs, q \in Procs :
    /\ keyOf[p] # <<>>
    /\ keyOf[q] # <<>>
    /\ opts[p].opItem = <<"/">>
    /\ opts[q].opVault = <<".", ".">>

====
